---- MODULE Spec2Model ----
(***************************************************************************)
(* Model of the dt-bindings headers of zmk-to-kanata:                      *)
(*   matrix_transform.h  the matrix-index codec (RC, MATRIX_ROW,           *)
(*                       MATRIX_COL, GET_ROW, GET_COL)                     *)
(*   keys.h, mouse.h, behaviors.h and the test fixture keys.h              *)
(*                       the symbol tables (#define NAME literal)          *)
(* The macros are pure; each specification draws the operands in Init and  *)
(* its actions apply the macros the way a consumer of the header does.     *)
(* Operands are non-negative and small enough that (row << 8 | col) stays  *)
(* far below 2^31, so no integer width is involved.                        *)
(***************************************************************************)
EXTENDS Integers, FiniteSets, TLC

VARIABLES pc, row, col, row2, col2, matrix_index, matrix_index2,
          out_row, out_col, header, name, name2, value, value2

vars == <<pc, row, col, row2, col2, matrix_index, matrix_index2,
          out_row, out_col, header, name, name2, value, value2>>

tableVars == <<header, name, name2, value, value2>>

(* ---------------------------- bounds ---------------------------------- *)
\* largest row operand drawn; above 255 so that oversized rows occur
MaxRow == 300
\* largest column operand drawn; above 255 so that oversized columns occur
MaxCol == 1030
\* largest packed index drawn for decoding; above 65535
MaxIndex == 65600
\* width of the bands of operands drawn around 0, 128 and 255 for pairs
PairEdge == 5

(* ------------------- C operators on non-negative ints ------------------ *)
\* | written as +
BitOr_plus(a, b) == a + b

RECURSIVE BitOr(_, _)
\* a | b
BitOr(a, b) ==
    IF a = 0 THEN b
    ELSE IF b = 0 THEN a
    ELSE (IF a % 2 = 1 \/ b % 2 = 1 THEN 1 ELSE 0)
         + 2 * BitOr(a \div 2, b \div 2)

\* & written as |
BitAnd_or(a, b) == BitOr(a, b)

RECURSIVE BitAnd(_, _)
\* a & b
BitAnd(a, b) ==
    IF a = 0 \/ b = 0 THEN 0
    ELSE (IF a % 2 = 1 /\ b % 2 = 1 THEN 1 ELSE 0)
         + 2 * BitAnd(a \div 2, b \div 2)

\* shift count used as a factor
ShiftLeft_times(a, n) == a * n

\* a << n
ShiftLeft(a, n) == a * 2^n

\* a >> n
ShiftRight(a, n) == a \div 2^n

(* --------------------------- matrix_transform.h ------------------------ *)
\* row shifted by a nibble instead of a byte
RC_nibble(r, c) == BitOr(ShiftLeft(r, 4), c)

\* #define RC(row, col) ((row) << 8 | (col))     << binds tighter than |
RC(r, c) == BitOr(ShiftLeft(r, 8), c)

\* row left unshifted
MATRIX_ROW_unshifted(r) == r

\* #define MATRIX_ROW(row) ((row) << 8)
MATRIX_ROW(r) == ShiftLeft(r, 8)

\* #define MATRIX_COL(col) (col)
MATRIX_COL(c) == c

\* shift one bit short
GET_ROW_shift7(m) == ShiftRight(m, 7)

\* #define GET_ROW(matrix_index) ((matrix_index) >> 8)
GET_ROW(m) == ShiftRight(m, 8)

\* mask one bit short
GET_COL_mask7F(m) == BitAnd(m, \h7F)

\* #define GET_COL(matrix_index) ((matrix_index) & 0xFF)
GET_COL(m) == BitAnd(m, \hFF)

(* ------------------------------ helpers -------------------------------- *)
InByte(v) == v \in 0..255
\* positions of the 1-bits of a non-negative integer below 2^16
Bits(n) == {i \in 0..15 : (n \div 2^i) % 2 = 1}

NoTable == /\ header = "none" /\ name = "none" /\ name2 = "none"
           /\ value = 0 /\ value2 = 0

(* ------------------ encode, then decode (RC, GET_ROW, GET_COL) --------- *)
Init ==
    /\ pc = "input"
    /\ row \in 0..MaxRow
    /\ col \in 0..MaxCol
    /\ row2 = 0 /\ col2 = 0
    /\ matrix_index = 0 /\ matrix_index2 = 0
    /\ out_row = 0 /\ out_col = 0
    /\ NoTable

Encode ==
    /\ pc = "input"
    /\ matrix_index' = RC(row, col)
    /\ pc' = "encoded"
    /\ UNCHANGED <<row, col, row2, col2, matrix_index2, out_row, out_col>>
    /\ UNCHANGED tableVars

DecodeRow ==
    /\ pc = "encoded"
    /\ out_row' = GET_ROW(matrix_index)
    /\ pc' = "row_decoded"
    /\ UNCHANGED <<row, col, row2, col2, matrix_index, matrix_index2, out_col>>
    /\ UNCHANGED tableVars

DecodeCol ==
    /\ pc = "row_decoded"
    /\ out_col' = GET_COL(matrix_index)
    /\ pc' = "decoded"
    /\ UNCHANGED <<row, col, row2, col2, matrix_index, matrix_index2, out_row>>
    /\ UNCHANGED tableVars

Next == Encode \/ DecodeRow \/ DecodeCol

Spec == Init /\ [][Next]_vars

\* C1: for row and column in [0,255], decoding RC(row, column) gives back
\* exactly row and column.
RoundTripExact ==
    (pc = "decoded" /\ InByte(row) /\ InByte(col))
        => (out_row = row /\ out_col = col)

RoundTripWitness ==
    pc = "decoded" /\ row = 255 /\ col = 255 /\ out_row = 255 /\ out_col = 255

\* C2: for row and column in [0,255], RC(row, column) is row * 256 + column;
\* RC(0,0) = 0, RC(1,0) = 256, RC(0,255) = 255 and RC(2,3) = 515.
EncodeIsRowTimes256PlusCol ==
    (pc # "input" /\ InByte(row) /\ InByte(col))
        => /\ matrix_index = row * 256 + col
           /\ (row = 0 /\ col = 0) => matrix_index = 0
           /\ (row = 1 /\ col = 0) => matrix_index = 256
           /\ (row = 0 /\ col = 255) => matrix_index = 255
           /\ (row = 2 /\ col = 3) => matrix_index = 515

EncodeWitness ==
    pc = "encoded" /\ row = 2 /\ col = 3 /\ matrix_index = 515

\* C4 as stated: for row in [0,255] and every column above 255 the decoded
\* row differs from row.
RowAlwaysCorrupted ==
    (pc = "decoded" /\ InByte(row) /\ col > 255) => out_row # row

\* C4 amended: for row in [0,255] and column above 255 the decoded row is
\* row OR-ed with (column >> 8); it differs from row exactly when
\* (column >> 8) has a 1-bit that row lacks.
RowCorruptedByColumnHighBits ==
    (pc = "decoded" /\ InByte(row) /\ col > 255)
        => /\ Bits(out_row) = Bits(row) \cup Bits(col \div 256)
           /\ (out_row # row) <=> ~(Bits(col \div 256) \subseteq Bits(row))

RowCorruptedWitness ==
    pc = "decoded" /\ row = 2 /\ col = 256 + 7 /\ out_row = 3

\* C5: for any non-negative row and column, also a column above 255, RC
\* yields an integer and the decoded column is column mod 256, in [0,255].
DecodedColumnWraps ==
    /\ (pc # "input") => matrix_index \in Nat
    /\ (pc = "decoded") => (out_col = col % 256 /\ out_col \in 0..255)

ColumnWrapWitness ==
    pc = "decoded" /\ row = 256 /\ col = 256 + 44 /\ out_col = 44

(* ------------- decode, then encode again (GET_ROW, GET_COL, RC) -------- *)
InitDecode ==
    /\ pc = "packed"
    /\ matrix_index \in 0..MaxIndex
    /\ row = 0 /\ col = 0 /\ row2 = 0 /\ col2 = 0
    /\ matrix_index2 = 0
    /\ out_row = 0 /\ out_col = 0
    /\ NoTable

UnpackRow ==
    /\ pc = "packed"
    /\ out_row' = GET_ROW(matrix_index)
    /\ pc' = "row_unpacked"
    /\ UNCHANGED <<row, col, row2, col2, matrix_index, matrix_index2, out_col>>
    /\ UNCHANGED tableVars

UnpackCol ==
    /\ pc = "row_unpacked"
    /\ out_col' = GET_COL(matrix_index)
    /\ pc' = "unpacked"
    /\ UNCHANGED <<row, col, row2, col2, matrix_index, matrix_index2, out_row>>
    /\ UNCHANGED tableVars

Repack ==
    /\ pc = "unpacked"
    /\ matrix_index2' = RC(out_row, out_col)
    /\ pc' = "repacked"
    /\ UNCHANGED <<row, col, row2, col2, matrix_index, out_row, out_col>>
    /\ UNCHANGED tableVars

NextDecode == UnpackRow \/ UnpackCol \/ Repack

SpecDecode == InitDecode /\ [][NextDecode]_vars

\* C8: for every packed p in [0,65535], RC(GET_ROW(p), GET_COL(p)) = p with
\* GET_ROW(p) and GET_COL(p) both in [0,255].
RepackIsIdentity ==
    (pc = "repacked" /\ matrix_index \in 0..65535)
        => /\ matrix_index2 = matrix_index
           /\ InByte(out_row)
           /\ InByte(out_col)

RepackWitness ==
    /\ pc = "repacked" /\ matrix_index = 65535 /\ matrix_index2 = 65535
    /\ out_row = 255 /\ out_col = 255

(* ------------- the component macros (MATRIX_ROW, MATRIX_COL) ----------- *)
MatrixRowPart ==
    /\ pc = "input"
    /\ matrix_index' = MATRIX_ROW(row)
    /\ pc' = "row_part"
    /\ UNCHANGED <<row, col, row2, col2, matrix_index2, out_row, out_col>>
    /\ UNCHANGED tableVars

MatrixColPart ==
    /\ pc = "input"
    /\ matrix_index' = MATRIX_COL(col)
    /\ pc' = "col_part"
    /\ UNCHANGED <<row, col, row2, col2, matrix_index2, out_row, out_col>>
    /\ UNCHANGED tableVars

\* MATRIX_ROW(row) | MATRIX_COL(col) next to RC(row, col)
ComposeParts ==
    /\ pc = "input"
    /\ matrix_index' = BitOr(MATRIX_ROW(row), MATRIX_COL(col))
    /\ matrix_index2' = RC(row, col)
    /\ pc' = "composed"
    /\ UNCHANGED <<row, col, row2, col2, out_row, out_col>>
    /\ UNCHANGED tableVars

DecodePart ==
    /\ pc \in {"row_part", "col_part"}
    /\ out_row' = GET_ROW(matrix_index)
    /\ out_col' = GET_COL(matrix_index)
    /\ pc' = IF pc = "row_part" THEN "row_part_decoded" ELSE "col_part_decoded"
    /\ UNCHANGED <<row, col, row2, col2, matrix_index, matrix_index2>>
    /\ UNCHANGED tableVars

NextCompose == MatrixRowPart \/ MatrixColPart \/ ComposeParts \/ DecodePart

SpecCompose == Init /\ [][NextCompose]_vars

\* C9: for row and column in [0,255], MATRIX_ROW(row) | MATRIX_COL(column)
\* is RC(row, column); MATRIX_ROW(row) decodes to (row, 0) and
\* MATRIX_COL(column) decodes to (0, column).
PartsComposeToRC ==
    (InByte(row) /\ InByte(col))
        => /\ (pc = "composed") => matrix_index = matrix_index2
           /\ (pc = "row_part_decoded") => (out_row = row /\ out_col = 0)
           /\ (pc = "col_part_decoded") => (out_row = 0 /\ out_col = col)

PartsWitness ==
    pc = "row_part_decoded" /\ row = 200 /\ col = 100
        /\ matrix_index = 51200 /\ out_row = 200 /\ out_col = 0

(* ------------------ two coordinates, both encoded (RC) ----------------- *)
\* operands near 0, near 128 and near 255
PairOperands ==
    {v \in 0..255 : \/ v <= PairEdge
                    \/ v >= 255 - PairEdge
                    \/ (v >= 128 - PairEdge /\ v <= 128 + PairEdge)}

InitPair ==
    /\ pc = "input"
    /\ row \in PairOperands /\ col \in PairOperands
    /\ row2 \in PairOperands /\ col2 \in PairOperands
    /\ matrix_index = 0 /\ matrix_index2 = 0
    /\ out_row = 0 /\ out_col = 0
    /\ NoTable

EncodeFirst ==
    /\ pc = "input"
    /\ matrix_index' = RC(row, col)
    /\ pc' = "first_encoded"
    /\ UNCHANGED <<row, col, row2, col2, matrix_index2, out_row, out_col>>
    /\ UNCHANGED tableVars

EncodeSecond ==
    /\ pc = "first_encoded"
    /\ matrix_index2' = RC(row2, col2)
    /\ pc' = "both_encoded"
    /\ UNCHANGED <<row, col, row2, col2, matrix_index, out_row, out_col>>
    /\ UNCHANGED tableVars

NextPair == EncodeFirst \/ EncodeSecond

SpecPair == InitPair /\ [][NextPair]_vars

\* C6: for coordinates with every component in [0,255], equal packed
\* indices imply equal rows and equal columns.
PackedIndexUnique ==
    (/\ pc = "both_encoded"
     /\ InByte(row) /\ InByte(col) /\ InByte(row2) /\ InByte(col2)
     /\ matrix_index = matrix_index2)
        => (row = row2 /\ col = col2)

PackedIndexWitness ==
    /\ pc = "both_encoded" /\ matrix_index = matrix_index2
    /\ row = 1 /\ col = 128 /\ row2 = 1 /\ col2 = 128

(* ------------------------- converter keys.h ---------------------------- *)
LetterKeys ==
    [KC_A |-> \h04, KC_B |-> \h05, KC_C |-> \h06, KC_D |-> \h07,
     KC_E |-> \h08, KC_F |-> \h09, KC_G |-> \h0A, KC_H |-> \h0B,
     KC_I |-> \h0C, KC_J |-> \h0D, KC_K |-> \h0E, KC_L |-> \h0F,
     KC_M |-> \h10, KC_N |-> \h11, KC_O |-> \h12, KC_P |-> \h13,
     KC_Q |-> \h14, KC_R |-> \h15, KC_S |-> \h16, KC_T |-> \h17,
     KC_U |-> \h18, KC_V |-> \h19, KC_W |-> \h1A, KC_X |-> \h1B,
     KC_Y |-> \h1C, KC_Z |-> \h1D]

\* left shift and left alt swapped
ModifierKeys_swapped ==
    [KC_LCTRL |-> \hE0, KC_LSHIFT |-> \hE2, KC_LALT |-> \hE1,
     KC_LGUI |-> \hE3, KC_RCTRL |-> \hE4, KC_RSHIFT |-> \hE5,
     KC_RALT |-> \hE6, KC_RGUI |-> \hE7]

\* /* Modifiers */
ModifierKeys ==
    [KC_LCTRL |-> \hE0, KC_LSHIFT |-> \hE1, KC_LALT |-> \hE2,
     KC_LGUI |-> \hE3, KC_RCTRL |-> \hE4, KC_RSHIFT |-> \hE5,
     KC_RALT |-> \hE6, KC_RGUI |-> \hE7]

\* /* Function keys */
FunctionKeys ==
    [KC_F1 |-> \h3A, KC_F2 |-> \h3B, KC_F3 |-> \h3C, KC_F4 |-> \h3D,
     KC_F5 |-> \h3E, KC_F6 |-> \h3F, KC_F7 |-> \h40, KC_F8 |-> \h41,
     KC_F9 |-> \h42, KC_F10 |-> \h43, KC_F11 |-> \h44, KC_F12 |-> \h45]

\* /* Other keys */
OtherKeys ==
    [KC_ENTER |-> \h28, KC_ESC |-> \h29, KC_BSPC |-> \h2A, KC_TAB |-> \h2B,
     KC_SPC |-> \h2C, KC_MINUS |-> \h2D, KC_EQUAL |-> \h2E,
     KC_LBKT |-> \h2F, KC_RBKT |-> \h30, KC_BSLASH |-> \h31,
     KC_SEMI |-> \h33, KC_QUOTE |-> \h34, KC_GRAVE |-> \h35,
     KC_COMMA |-> \h36, KC_DOT |-> \h37, KC_SLASH |-> \h38,
     KC_CAPS |-> \h39]

\* /* Number row */
NumberRow ==
    [KC_1 |-> \h1E, KC_2 |-> \h1F, KC_3 |-> \h20, KC_4 |-> \h21,
     KC_5 |-> \h22, KC_6 |-> \h23, KC_7 |-> \h24, KC_8 |-> \h25,
     KC_9 |-> \h26, KC_0 |-> \h27]

\* /* Navigation cluster */
NavigationCluster ==
    [KC_INSERT |-> \h49, KC_HOME |-> \h4A, KC_PGUP |-> \h4B,
     KC_DELETE |-> \h4C, KC_END |-> \h4D, KC_PGDN |-> \h4E,
     KC_RIGHT |-> \h4F, KC_LEFT |-> \h50, KC_DOWN |-> \h51,
     KC_UP |-> \h52]

KeysH ==
    LetterKeys @@ ModifierKeys @@ FunctionKeys @@ OtherKeys @@ NumberRow
        @@ NavigationCluster

(* ------------------------------ mouse.h -------------------------------- *)
\* codes counted from zero
MouseH_zero_based ==
    [LCLK |-> \h00, RCLK |-> \h01, MCLK |-> \h02, MOVE_UP |-> \h03,
     MOVE_DOWN |-> \h04, MOVE_LEFT |-> \h05, MOVE_RIGHT |-> \h06,
     SCROLL_UP |-> \h07, SCROLL_DOWN |-> \h08, SCROLL_LEFT |-> \h09,
     SCROLL_RIGHT |-> \h0A]

MouseH ==
    [LCLK |-> \h01, RCLK |-> \h02, MCLK |-> \h03, MOVE_UP |-> \h04,
     MOVE_DOWN |-> \h05, MOVE_LEFT |-> \h06, MOVE_RIGHT |-> \h07,
     SCROLL_UP |-> \h08, SCROLL_DOWN |-> \h09, SCROLL_LEFT |-> \h0A,
     SCROLL_RIGHT |-> \h0B]

(* ---------------------------- behaviors.h ------------------------------ *)
\* /* Basic behaviors */
BasicBehaviors ==
    ("&kp" :> \h01) @@ ("&mt" :> \h02) @@ ("&lt" :> \h03) @@ ("&mo" :> \h04)
        @@ ("&to" :> \h05) @@ ("&tog" :> \h06) @@ ("&sk" :> \h07)
        @@ ("&trans" :> \h08) @@ ("&macro" :> \h09)

\* /* Hold-tap configuration */
HoldTapFlavors ==
    [HOLD_TAP_FLAVOR_HOLD_PREFERRED |-> 0,
     HOLD_TAP_FLAVOR_BALANCED |-> 1,
     HOLD_TAP_FLAVOR_TAP_PREFERRED |-> 2,
     HOLD_TAP_FLAVOR_TAP_UNLESS_INTERRUPTED |-> 3]

\* /* Timing parameters */
TimingParameters ==
    [TAPPING_TERM_MS |-> 200, QUICK_TAP_MS |-> 125,
     GLOBAL_QUICK_TAP_MS |-> 150]

\* /* Layer behavior parameters */
LayerBehaviorParameters ==
    [DEFAULT_LAYER |-> 0, MOMENTARY_LAYER |-> 1, TOGGLE_LAYER |-> 2]

BehaviorsH ==
    BasicBehaviors @@ HoldTapFlavors @@ TimingParameters
        @@ LayerBehaviorParameters

(* ------------------------- test fixture keys.h ------------------------- *)
\* /* Basic letter keys */   #define A KP_A ...
FixtureLetterKeys ==
    [A |-> "KP_A", B |-> "KP_B", C |-> "KP_C", D |-> "KP_D", E |-> "KP_E",
     F |-> "KP_F"]

\* KP_F given the code after the converter's KC_F
FixtureKeyCodes_drift ==
    [KP_A |-> \h04, KP_B |-> \h05, KP_C |-> \h06, KP_D |-> \h07,
     KP_E |-> \h08, KP_F |-> \h0A]

\* /* Key codes */
FixtureKeyCodes ==
    [KP_A |-> \h04, KP_B |-> \h05, KP_C |-> \h06, KP_D |-> \h07,
     KP_E |-> \h08, KP_F |-> \h09]

(* --------------------- macro expansion of one token -------------------- *)
Headers == {"keys.h", "mouse.h", "behaviors.h", "fixtures/keys.h"}

\* the object-like macros a header defines
Macros(h) ==
    CASE h = "keys.h" -> DOMAIN KeysH
      [] h = "mouse.h" -> DOMAIN MouseH
      [] h = "behaviors.h" -> DOMAIN BehaviorsH
      [] h = "fixtures/keys.h" ->
            DOMAIN FixtureLetterKeys \cup DOMAIN FixtureKeyCodes

\* the literal a macro name expands to; the fixture's letter names expand to
\* a KP_ name, which is rescanned and expands to its literal
Expand(h, n) ==
    CASE h = "keys.h" -> KeysH[n]
      [] h = "mouse.h" -> MouseH[n]
      [] h = "behaviors.h" -> BehaviorsH[n]
      [] h = "fixtures/keys.h" ->
            IF n \in DOMAIN FixtureLetterKeys
            THEN FixtureKeyCodes[FixtureLetterKeys[n]]
            ELSE FixtureKeyCodes[n]

\* the header the second token is expanded with: a fixture name is set
\* against a name of the converter's keys.h
SecondHeader(h) == IF h = "fixtures/keys.h" THEN "keys.h" ELSE h

InitTables ==
    /\ pc = "tokens"
    /\ header \in Headers
    /\ name \in Macros(header)
    /\ name2 \in Macros(SecondHeader(header))
    /\ value = 0 /\ value2 = 0
    /\ row = 0 /\ col = 0 /\ row2 = 0 /\ col2 = 0
    /\ matrix_index = 0 /\ matrix_index2 = 0
    /\ out_row = 0 /\ out_col = 0

ExpandFirst ==
    /\ pc = "tokens"
    /\ value' = Expand(header, name)
    /\ pc' = "first_expanded"
    /\ UNCHANGED <<header, name, name2, value2>>
    /\ UNCHANGED <<row, col, row2, col2, matrix_index, matrix_index2,
                   out_row, out_col>>

ExpandSecond ==
    /\ pc = "first_expanded"
    /\ value2' = Expand(SecondHeader(header), name2)
    /\ pc' = "expanded"
    /\ UNCHANGED <<header, name, name2, value>>
    /\ UNCHANGED <<row, col, row2, col2, matrix_index, matrix_index2,
                   out_row, out_col>>

NextTables == ExpandFirst \/ ExpandSecond

SpecTables == InitTables /\ [][NextTables]_vars

\* C3 as stated: KC_A is 4, KC_LSHIFT is 224 and MOMENTARY_LAYER is 1.
NamedValuesAsStated ==
    (pc = "expanded")
        => /\ (header = "keys.h" /\ name = "KC_A") => value = 4
           /\ (header = "keys.h" /\ name = "KC_LSHIFT") => value = 224
           /\ (header = "behaviors.h" /\ name = "MOMENTARY_LAYER")
                 => value = 1

\* C3 amended: KC_A is 4, KC_LSHIFT is 225 (0xE1; 224 is KC_LCTRL, 0xE0) and
\* MOMENTARY_LAYER is 1.
NamedValues ==
    (pc = "expanded")
        => /\ (header = "keys.h" /\ name = "KC_A") => value = 4
           /\ (header = "keys.h" /\ name = "KC_LSHIFT") => value = 225
           /\ (header = "keys.h" /\ name = "KC_LCTRL") => value = 224
           /\ (header = "behaviors.h" /\ name = "MOMENTARY_LAYER")
                 => value = 1

NamedValuesWitness ==
    pc = "expanded" /\ header = "keys.h" /\ name = "KC_LSHIFT" /\ value = 225

\* C7: non-modifier KC_ codes lie in 0x01-0x52, the eight modifier codes are
\* exactly 0xE0-0xE7, mouse codes lie in 0x01-0x0B, the four hold-tap
\* flavors are exactly 0-3 and the three layer constants are exactly 0-2.
\* (n names onto a range of n values: each in the range, no two alike)
ConstantsInRange ==
    (pc = "expanded")
        => /\ (header = "keys.h" /\ name \notin DOMAIN ModifierKeys)
                 => value \in 1..82
           /\ (header = "keys.h" /\ name \in DOMAIN ModifierKeys)
                 => /\ value \in 224..231
                    /\ Cardinality(DOMAIN ModifierKeys) = 8
                    /\ (name2 \in DOMAIN ModifierKeys /\ name2 # name)
                          => value2 # value
           /\ (header = "mouse.h") => value \in 1..11
           /\ (header = "behaviors.h" /\ name \in DOMAIN HoldTapFlavors)
                 => /\ value \in 0..3
                    /\ Cardinality(DOMAIN HoldTapFlavors) = 4
                    /\ (name2 \in DOMAIN HoldTapFlavors /\ name2 # name)
                          => value2 # value
           /\ (header = "behaviors.h"
                  /\ name \in DOMAIN LayerBehaviorParameters)
                 => /\ value \in 0..2
                    /\ Cardinality(DOMAIN LayerBehaviorParameters) = 3
                    /\ (name2 \in DOMAIN LayerBehaviorParameters
                           /\ name2 # name)
                          => value2 # value

ConstantsInRangeWitness ==
    /\ pc = "expanded" /\ header = "keys.h"
    /\ name = "KC_RGUI" /\ value = 231 /\ name2 = "KC_UP" /\ value2 = 82

\* C10: distinct KC_ names of keys.h have distinct values, distinct names of
\* mouse.h have distinct values, and the fixture's KP_A..KP_F have the
\* values of the converter's KC_A..KC_F.
FixtureCounterparts ==
    {<<"KP_A", "KC_A">>, <<"KP_B", "KC_B">>, <<"KP_C", "KC_C">>,
     <<"KP_D", "KC_D">>, <<"KP_E", "KC_E">>, <<"KP_F", "KC_F">>}

TablesInjective ==
    (pc = "expanded")
        => /\ (header \in {"keys.h", "mouse.h"} /\ name # name2)
                 => value # value2
           /\ (header = "fixtures/keys.h"
                  /\ <<name, name2>> \in FixtureCounterparts)
                 => value = value2

TablesInjectiveWitness ==
    /\ pc = "expanded" /\ header = "fixtures/keys.h"
    /\ name = "KP_F" /\ name2 = "KC_F" /\ value = 9 /\ value2 = 9

====
